---- MODULE Spec2Model ----
(***************************************************************************)
(* AutoBuilder derive macro: the generator (expand_autobuilder and the     *)
(* helpers of parse.rs) as operators over a structural description of the  *)
(* derive input, and the generated builder (new, the accessors, build) as  *)
(* a state machine over the builder's storage members.                      *)
(*                                                                         *)
(* Option<X> is a sequence of length at most one: None is << >> and        *)
(* Some(x) is <<x>>.  Identifiers and string literals are strings.         *)
(***************************************************************************)
EXTENDS Integers, Sequences, FiniteSets, TLC

VARIABLES input, pc, plan, st, ret, ghost, nbuild

vars == <<input, pc, plan, st, ret, ghost, nbuild>>

(* ------------------------------ bounds -------------------------------- *)

\* most directives (items) on one field, over all its annotations
MaxItems == 2
\* most annotations on one field
MaxAttrs == 2
\* most fields of a record of the runtime specification
MaxFields == 2
\* longest sequence a builder stores
MaxLen == 2
\* most consecutive build calls
MaxBuilds == 2

(* ----------------------------- Option --------------------------------- *)

None == << >>

Some(x) == <<x>>

IsSome(o) == Len(o) = 1

Unwrap(o) == o[1]

(* ------------------------- identifiers -------------------------------- *)

\* The string literals of the directive universe that are not identifiers:
\* the empty string and a string that starts with a digit.
NotIdents == {"", "1x"}

\* format_ident!("{}", s): proc_macro2's Ident::new panics on a string that
\* is not an identifier.
IsValidIdent(s) == s \notin NotIdents

(* ----------------------- Schema Inspector ----------------------------- *)
\* A type is [isPath, head, angle, args]: head is the first path segment's
\* identifier, angle says whether that segment carries <...>, args are the
\* generic arguments, each [kind |-> "type" | "lifetime", name].

TyArg(k, n) == [kind |-> k, name |-> n]

PathTy(h, a, as) == [isPath |-> TRUE, head |-> h, angle |-> a, args |-> as]

\* a type that is no path, such as &T or (T, U)
RefTy == [isPath |-> FALSE, head |-> "", angle |-> FALSE, args |-> << >>]

is_option(ty) == ty.isPath /\ ty.head = "Option" /\ ty.angle

is_vec(ty) ==
  IF /\ ty.isPath
     /\ ty.head = "Vec"
     /\ ty.angle
     /\ Len(ty.args) > 0
     /\ ty.args[1].kind = "type"
  THEN Some(ty.args[1].name)
  ELSE None

option_inner_type(ty) ==
  IF /\ ty.isPath
     /\ ty.head = "Option"
     /\ ty.angle
     /\ Len(ty.args) > 0
     /\ ty.args[1].kind = "type"
  THEN Some(ty.args[1].name)
  ELSE None

(* ----------------------- Directive Resolver --------------------------- *)
\* An annotation is [tag, items]; an item is [key, kind, v]: kind "path" is
\* the bare key, kind "str" is key = "v", kind "int" is key = v.

Item(k, kd, v) == [key |-> k, kind |-> kd, v |-> v]

Attr(t, is) == [tag |-> t, items |-> is]

ExprOf(it) == [kind |-> it.kind, v |-> it.v]

\* The closure of get_skip_expr run by parse_nested_meta over one annotation,
\* from item i on.  A bare skip sets Some(None) and the walk goes on.  For
\* skip = ..., the text parsed as an expression is everything left in the
\* annotation, so it parses only when the item is the last one; the value is
\* left unconsumed and the walk ends.  Any other key returns Ok without
\* consuming a value, so the walk ends at the first such item with a value.
RECURSIVE SkipWalk(_, _, _)
SkipWalk(items, i, skip_val) ==
  IF i > Len(items) THEN skip_val
  ELSE LET it == items[i] IN
       IF it.key = "skip"
       THEN IF it.kind = "path"
            THEN SkipWalk(items, i + 1, Some(None))
            ELSE IF i = Len(items) THEN Some(Some(ExprOf(it))) ELSE skip_val
       ELSE IF it.kind = "path"
            THEN SkipWalk(items, i + 1, skip_val)
            ELSE skip_val

RECURSIVE SkipFrom(_, _)
SkipFrom(attrs, a) ==
  IF a > Len(attrs) THEN None
  ELSE IF attrs[a].tag = "builder"
       THEN LET skip_val == SkipWalk(attrs[a].items, 1, None) IN
            IF IsSome(skip_val) THEN skip_val ELSE SkipFrom(attrs, a + 1)
       ELSE SkipFrom(attrs, a + 1)

\* None, Some(None) for a bare skip, Some(Some(expr)) for skip = expr
get_skip_expr(attrs) == SkipFrom(attrs, 1)

\* The closure of the three accessor-name helpers over one annotation, from
\* item i on; r is [panic, name], name the Option<Ident> setter_name.  A
\* matching key with a string literal sets the name (format_ident! panics if
\* the string is no identifier); with another literal the literal is consumed
\* and nothing is set; a bare matching key sets nothing.  Any other key
\* returns Ok without consuming a value, so the walk ends at the first such
\* item with a value.
RECURSIVE NameWalk(_, _, _, _)
NameWalk(items, key, i, r) ==
  IF i > Len(items) THEN r
  ELSE LET it == items[i] IN
       IF it.key = key
       THEN IF it.kind = "str"
            THEN IF IsValidIdent(it.v)
                 THEN NameWalk(items, key, i + 1, [r EXCEPT !.name = Some(it.v)])
                 ELSE [r EXCEPT !.panic = TRUE]
            ELSE NameWalk(items, key, i + 1, r)
       ELSE IF it.kind = "path"
            THEN NameWalk(items, key, i + 1, r)
            ELSE r

\* The for loop of the three helpers: the first annotation that yields a name
\* decides; fallback is the identifier returned when none does.
RECURSIVE NameFrom(_, _, _, _)
NameFrom(attrs, key, a, fallback) ==
  IF a > Len(attrs) THEN [panic |-> FALSE, name |-> fallback]
  ELSE IF attrs[a].tag = "builder"
       THEN LET r == NameWalk(attrs[a].items, key, 1, [panic |-> FALSE, name |-> None]) IN
            IF r.panic THEN [panic |-> TRUE, name |-> fallback]
            ELSE IF IsSome(r.name) THEN [panic |-> FALSE, name |-> Unwrap(r.name)]
            ELSE NameFrom(attrs, key, a + 1, fallback)
       ELSE NameFrom(attrs, key, a + 1, fallback)

get_setter_set_name_bare(attrs, default) == NameFrom(attrs, "setter_set", 1, default)

get_setter_set_name(attrs, default) == NameFrom(attrs, "setter_set", 1, "set_" \o default)

get_setter_push_name(attrs, default) == NameFrom(attrs, "setter_push", 1, default)

get_setter_push_many_name(attrs, default) == NameFrom(attrs, "setter_push_many", 1, default)

\* The Punctuated<Meta> walks of expand_autobuilder: every item of every
\* builder annotation is visited in order and each match overwrites the last.
\* d is [panic, setter_name, default_expr]; withDefault is FALSE in the
\* Option branch, which reads the setter key only.
RECURSIVE MetaWalk(_, _, _, _)
MetaWalk(items, i, withDefault, d) ==
  IF i > Len(items) THEN d
  ELSE LET it == items[i]
           d1 == IF it.key = "setter" /\ it.kind = "str"
                 THEN IF IsValidIdent(it.v)
                      THEN [d EXCEPT !.setter_name = Some(it.v)]
                      ELSE [d EXCEPT !.panic = TRUE]
                 ELSE d
           d2 == IF withDefault /\ it.key = "default" /\ it.kind # "path"
                 THEN [d1 EXCEPT !.default_expr = Some(ExprOf(it))]
                 ELSE d1
       IN IF d1.panic THEN d1 ELSE MetaWalk(items, i + 1, withDefault, d2)

RECURSIVE MetaFrom(_, _, _, _)
MetaFrom(attrs, a, withDefault, d) ==
  IF a > Len(attrs) \/ d.panic THEN d
  ELSE IF attrs[a].tag = "builder"
       THEN MetaFrom(attrs, a + 1, withDefault, MetaWalk(attrs[a].items, 1, withDefault, d))
       ELSE MetaFrom(attrs, a + 1, withDefault, d)

NoDirectives == [panic |-> FALSE, setter_name |-> None, default_expr |-> None]

OptionDirectives(attrs) == MetaFrom(attrs, 1, FALSE, NoDirectives)

ScalarDirectives(attrs) == MetaFrom(attrs, 1, TRUE, NoDirectives)

(* ----------------------- Builder Synthesizer --------------------------- *)
\* The derive input is [data, shape, ident, fields]; a field is
\* [name, ty, attrs].

Field(n, ty, attrs) == [name |-> n, ty |-> ty, attrs |-> attrs]

NoExpr == [kind |-> "path", v |-> ""]

\* one generated accessor: its method name, the storage member it writes and
\* the body it has
Setter(m, f, op) == [name |-> m, field |-> f, op |-> op]

\* one entry of build_fields: rule names the quoted expression
BuildField(f, rule, e) == [name |-> f, rule |-> rule, expr |-> e]

EmptyAcc ==
  [panic |-> FALSE, builder_fields |-> << >>, setters |-> << >>,
   build_fields |-> << >>, field_idents |-> << >>,
   skipped_with_value |-> << >>, skipped_without_value |-> << >>]

PanicAcc(acc) == [acc EXCEPT !.panic = TRUE]

\* the Vec branch of the loop body
VecField(f, acc) ==
  LET push_name == get_setter_push_name(f.attrs, "add_item")
      push_many_name == get_setter_push_many_name(f.attrs, "add_items")
      set_name == get_setter_set_name(f.attrs, "items")
  IN IF push_name.panic \/ push_many_name.panic \/ set_name.panic
     THEN PanicAcc(acc)
     ELSE [acc EXCEPT
             !.builder_fields = Append(@, [name |-> f.name, shape |-> "vec"]),
             !.setters = @ \o << Setter(push_name.name, f.name, "push"),
                                 Setter(push_many_name.name, f.name, "push_many"),
                                 Setter(set_name.name, f.name, "set_vec") >>,
             !.build_fields = Append(@, BuildField(f.name, "vec", NoExpr))]

\* the Option branch of the loop body; option_inner_type(ty).unwrap() panics
\* when the first generic argument is missing or is not a type
OptionField(f, acc) ==
  IF ~IsSome(option_inner_type(f.ty)) THEN PanicAcc(acc)
  ELSE LET d == OptionDirectives(f.attrs)
           setter_name == IF IsSome(d.setter_name) THEN Unwrap(d.setter_name) ELSE f.name
       IN IF d.panic THEN PanicAcc(acc)
          ELSE [acc EXCEPT
                  !.builder_fields = Append(@, [name |-> f.name, shape |-> "option"]),
                  !.setters = Append(@, Setter(setter_name, f.name, "set_option")),
                  !.build_fields = Append(@, BuildField(f.name, "option", NoExpr))]

\* the branch of the loop body for every other type
ScalarField(f, acc) ==
  LET d == ScalarDirectives(f.attrs)
      setter_name == IF IsSome(d.setter_name) THEN Unwrap(d.setter_name) ELSE f.name
  IN IF d.panic THEN PanicAcc(acc)
     ELSE [acc EXCEPT
             !.builder_fields = Append(@, [name |-> f.name, shape |-> "scalar"]),
             !.setters = Append(@, Setter(setter_name, f.name, "set_scalar")),
             !.build_fields =
                Append(@, IF IsSome(d.default_expr)
                          THEN BuildField(f.name, "default", Unwrap(d.default_expr))
                          ELSE BuildField(f.name, "required", NoExpr))]

\* one iteration of `for f in fields.iter()`
ExpandField(f, acc) ==
  LET skip == get_skip_expr(f.attrs) IN
  IF IsSome(skip)
  THEN IF IsSome(Unwrap(skip))
       THEN [acc EXCEPT
               !.build_fields = Append(@, BuildField(f.name, "expr", Unwrap(Unwrap(skip)))),
               !.skipped_with_value = Append(@, f.name)]
       ELSE [acc EXCEPT !.skipped_without_value = Append(@, f.name)]
  ELSE LET acc1 == [acc EXCEPT !.field_idents = Append(@, f.name)] IN
       IF IsSome(is_vec(f.ty)) THEN VecField(f, acc1)
       ELSE IF is_option(f.ty) THEN OptionField(f, acc1)
       ELSE ScalarField(f, acc1)

RECURSIVE ExpandFields(_, _, _)
ExpandFields(fields, i, acc) ==
  IF i > Len(fields) \/ acc.panic THEN acc
  ELSE ExpandFields(fields, i + 1, ExpandField(fields[i], acc))

NoPlan ==
  [status |-> "none", builder_name |-> "", builder_fields |-> << >>,
   field_idents |-> << >>, setters |-> << >>, build_fields |-> << >>,
   struct_update |-> FALSE]

\* The generated item list, or status "panic" when generation aborts.
\* struct_update says whether the constructor ends in ..Default::default().
expand_autobuilder(in) ==
  IF in.data # "struct" \/ in.shape # "named"
  THEN [NoPlan EXCEPT !.status = "panic"]
  ELSE LET acc == ExpandFields(in.fields, 1, EmptyAcc) IN
       IF acc.panic THEN [NoPlan EXCEPT !.status = "panic"]
       ELSE [status |-> "ok",
             builder_name |-> in.ident \o "Builder",
             builder_fields |-> acc.builder_fields,
             field_idents |-> acc.field_idents,
             setters |-> acc.setters,
             build_fields |-> acc.build_fields,
             struct_update |-> acc.skipped_without_value # << >>]

(* ----------------------- the generated builder ------------------------- *)

\* The generated impl compiles only if its method names are pairwise distinct
\* (new and build included).
Compiles(p) ==
  /\ p.status = "ok"
  /\ \A i \in 1..Len(p.setters) :
        /\ p.setters[i].name \notin {"new", "build"}
        /\ \A j \in 1..Len(p.setters) : i # j => p.setters[i].name # p.setters[j].name

\* pub fn new(): every storage member is None
new(p) == [f \in {p.field_idents[i] : i \in 1..Len(p.field_idents)} |-> None]

\* push-one: lazily initialise, then push
PushOne(cur, value) ==
  LET init == IF ~IsSome(cur) THEN Some(<< >>) ELSE cur IN
  Some(Append(Unwrap(init), value))

\* push-many: lazily initialise, then extend
PushManyReplace(cur, values) == Some(values)

PushMany(cur, values) ==
  LET init == IF ~IsSome(cur) THEN Some(<< >>) ELSE cur IN
  Some(Unwrap(init) \o values)

\* replace-all
SetAll(cur, value) == Some(value)

\* the accessor of an Option field
SetOption(cur, value) == Some(Some(value))

\* the accessor of a scalar field
SetScalar(cur, value) == Some(value)

ApplySetter(op, cur, arg) ==
  CASE op = "push" -> PushOne(cur, arg)
    [] op = "push_many" -> PushMany(cur, arg)
    [] op = "set_vec" -> SetAll(cur, arg)
    [] op = "set_option" -> SetOption(cur, arg)
    [] op = "set_scalar" -> SetScalar(cur, arg)

\* the value of an integer literal
IntLit(s) == CASE s = "42" -> 42 [] s = "7" -> 7

\* the value the spliced expression has when build runs
EvalExpr(e) == IF e.kind = "int" THEN IntLit(e.v) ELSE e.v

\* what ..Default::default() gives a member the constructor does not list
DefaultOf(ty) ==
  IF IsSome(is_vec(ty)) THEN << >>
  ELSE IF is_option(ty) THEN None
  ELSE 0

MissingMsg(name) == "Field '" \o name \o "' is missing"

Ok(rec) == [kind |-> "ok", msg |-> "", rec |-> rec]

Err(msg) == [kind |-> "err", msg |-> msg, rec |-> << >>]

RetSelf == [kind |-> "self", msg |-> "", rec |-> << >>]

\* one constructor member; [missing, val]
BuildValuePreferDefault(bf, cur) ==
  CASE bf.rule = "expr" -> [missing |-> FALSE, val |-> EvalExpr(bf.expr)]
    [] bf.rule = "vec" -> [missing |-> FALSE, val |-> IF IsSome(cur) THEN Unwrap(cur) ELSE << >>]
    [] bf.rule = "option" -> [missing |-> FALSE, val |-> IF IsSome(cur) THEN Unwrap(cur) ELSE None]
    [] bf.rule = "default" -> [missing |-> FALSE, val |-> EvalExpr(bf.expr)]
    [] bf.rule = "required" -> [missing |-> ~IsSome(cur), val |-> IF IsSome(cur) THEN Unwrap(cur) ELSE 0]

BuildValue(bf, cur) ==
  CASE bf.rule = "expr" -> [missing |-> FALSE, val |-> EvalExpr(bf.expr)]
    [] bf.rule = "vec" -> [missing |-> FALSE, val |-> IF IsSome(cur) THEN Unwrap(cur) ELSE << >>]
    [] bf.rule = "option" -> [missing |-> FALSE, val |-> IF IsSome(cur) THEN Unwrap(cur) ELSE None]
    [] bf.rule = "default" ->
         [missing |-> FALSE, val |-> IF IsSome(cur) THEN Unwrap(cur) ELSE EvalExpr(bf.expr)]
    [] bf.rule = "required" ->
         [missing |-> ~IsSome(cur), val |-> IF IsSome(cur) THEN Unwrap(cur) ELSE 0]

\* The constructor members are evaluated in order; the ? of the first
\* required member that is None returns the failure.
RECURSIVE BuildFrom(_, _, _, _)
BuildFrom(bfs, i, s, rec) ==
  IF i > Len(bfs) THEN Ok(rec)
  ELSE LET bf == bfs[i]
           r == BuildValue(bf, IF bf.rule = "expr" THEN None ELSE s[bf.name])
       IN IF r.missing THEN Err(MissingMsg(bf.name))
          ELSE BuildFrom(bfs, i + 1, s, rec @@ (bf.name :> r.val))

\* pub fn build(&self): the record, the members the constructor does not
\* list taken from ..Default::default()
build(p, in, s) ==
  LET r == BuildFrom(p.build_fields, 1, s, << >>) IN
  IF r.kind = "ok" /\ p.struct_update
  THEN Ok([n \in {in.fields[i].name : i \in 1..Len(in.fields)} |->
             IF n \in DOMAIN r.rec THEN r.rec[n]
             ELSE DefaultOf(in.fields[CHOOSE i \in 1..Len(in.fields) : in.fields[i].name = n].ty)])
  ELSE r

\* build takes &self and clones every member it reads
AfterBuildTake(s) == [f \in DOMAIN s |-> None]

AfterBuild(s) == s

(* ------------------------------ inputs --------------------------------- *)

Keys == {"skip", "setter", "default", "setter_set", "setter_push", "setter_push_many", "other"}

\* the forms an item takes: the bare key, key = "insert", key = "b",
\* key = "" and key = 42
Forms ==
  {[kind |-> "path", v |-> ""], [kind |-> "str", v |-> "insert"],
   [kind |-> "str", v |-> "b"], [kind |-> "str", v |-> ""],
   [kind |-> "int", v |-> "42"]}

ItemsOver(keys) == {Item(k, f.kind, f.v) : k \in keys, f \in Forms}

Tags == {"builder", "serde"}

SeqsUpTo(S, n) == UNION {[1..k -> S] : k \in 0..n}

\* The annotation lists of at most k annotations and n items in all, with
\* tags and items drawn from the given sets: a layout gives each annotation
\* its tag and its number of items, and the items fill the layout in order.
RECURSIVE ItemCount(_, _)
ItemCount(layout, a) ==
  IF a > Len(layout) THEN 0 ELSE layout[a][2] + ItemCount(layout, a + 1)

Layouts(tags, k, n) == {l \in SeqsUpTo(tags \X (0..n), k) : ItemCount(l, 1) <= n}

Offset(layout, a) == ItemCount(layout, 1) - ItemCount(layout, a)

Laid(layout, is) ==
  [a \in 1..Len(layout) |->
     Attr(layout[a][1], SubSeq(is, Offset(layout, a) + 1, Offset(layout, a) + layout[a][2]))]

AttrLists(tags, items, k, n) ==
  {Laid(q[1], q[2]) :
     q \in {r \in Layouts(tags, k, n) \X SeqsUpTo(items, n) : Len(r[2]) = ItemCount(r[1], 1)}}

I32 == PathTy("i32", FALSE, << >>)

VecT == PathTy("Vec", TRUE, <<TyArg("type", "T")>>)

OptionT == PathTy("Option", TRUE, <<TyArg("type", "T")>>)

BasicTypes == {I32, VecT, OptionT}

Types ==
  BasicTypes \cup
  {PathTy(h, TRUE, as) : h \in {"Vec", "Option"},
                         as \in {<< >>, <<TyArg("lifetime", "a")>>,
                                 <<TyArg("type", "T"), TyArg("type", "U")>>,
                                 <<TyArg("lifetime", "a"), TyArg("type", "T")>>}} \cup
  {PathTy(h, FALSE, << >>) : h \in {"Vec", "Option", "std"}} \cup
  {RefTy}

Struct(fields) == [data |-> "struct", shape |-> "named", ident |-> "Rec", fields |-> fields]

\* the inputs that are no struct with named fields
OtherInputs ==
  {[data |-> d, shape |-> sh, ident |-> "Rec", fields |-> << >>] :
     d \in {"struct", "enum", "union"}, sh \in {"named", "unnamed", "unit"}}
  \ {Struct(<< >>)}

\* one field f: every type without annotations, and the three basic types
\* under every annotation list
GenInputs ==
  OtherInputs \cup
  {Struct(<<Field("f", ty, << >>)>>) : ty \in Types} \cup
  {Struct(<<Field("f", ty, as)>>) :
     ty \in BasicTypes, as \in AttrLists(Tags, ItemsOver(Keys), MaxAttrs, MaxItems)}

\* one Vec field under the annotation lists over the keys that apply
\* to it, each bare, with the string "insert" or with the integer 42
SeqKeys == {"skip", "setter_set", "setter_push", "setter_push_many", "other"}

SeqItems == {it \in ItemsOver(SeqKeys) : it.v \in {"", "insert", "42"} /\ (it.kind = "str" => it.v # "")}

SeqInputs ==
  {Struct(<<Field("f", VecT, as)>>) : as \in AttrLists(Tags, SeqItems, MaxAttrs, MaxItems)}

\* the records of the runtime specification: up to MaxFields fields named
\* a, b, c, ..., each of one of these shapes
Builder(is) == <<Attr("builder", is)>>

Shapes ==
  {[ty |-> I32, attrs |-> << >>],
   [ty |-> I32, attrs |-> Builder(<<Item("default", "int", "42")>>)],
   [ty |-> I32, attrs |-> Builder(<<Item("setter", "str", "put")>>)],
   [ty |-> I32, attrs |-> Builder(<<Item("skip", "int", "7")>>)],
   [ty |-> I32, attrs |-> Builder(<<Item("skip", "path", "")>>)],
   [ty |-> VecT, attrs |-> << >>],
   [ty |-> OptionT, attrs |-> << >>]}

FieldNames == <<"a", "b", "c", "d", "e", "f">>

RunInputs ==
  {Struct([i \in 1..k |-> Field(FieldNames[i], sh[i].ty, sh[i].attrs)]) :
     k \in 0..MaxFields, sh \in [1..MaxFields -> Shapes]}

(* ------------------------------ actions -------------------------------- *)

Vals == {1, 2}

Batches == SeqsUpTo(Vals, 2)

ArgsOf(op) == IF op \in {"push_many", "set_vec"} THEN Batches ELSE Vals

\* what the calls made so far say about a member: the last value passed to a
\* single-value accessor, the argument of the last replace-all, and the
\* elements pushed since
NoCalls == [set |-> None, base |-> << >>, pushed |-> << >>]

Note(g, op, arg) ==
  CASE op = "push" -> [g EXCEPT !.pushed = Append(@, arg)]
    [] op = "push_many" -> [g EXCEPT !.pushed = @ \o arg]
    [] op = "set_vec" -> [g EXCEPT !.base = arg, !.pushed = << >>]
    [] OTHER -> [g EXCEPT !.set = Some(arg)]

TypeInit ==
  /\ pc = "input"
  /\ plan = NoPlan
  /\ st = << >>
  /\ ret = RetSelf
  /\ ghost = << >>
  /\ nbuild = 0

\* the derive macro runs on the input
Expand ==
  /\ pc = "input"
  /\ plan' = expand_autobuilder(input)
  /\ pc' = "expanded"
  /\ UNCHANGED <<input, st, ret, ghost, nbuild>>

\* RecBuilder::new()
New ==
  /\ pc = "expanded"
  /\ Compiles(plan)
  /\ st' = new(plan)
  /\ ghost' = [f \in DOMAIN new(plan) |-> NoCalls]
  /\ pc' = "run"
  /\ UNCHANGED <<input, plan, ret, nbuild>>

\* a call of the accessor plan.setters[i] with argument arg
Call(i, arg) ==
  LET s == plan.setters[i]
      next == ApplySetter(s.op, st[s.field], arg)
  IN /\ pc = "run"
     /\ s.op \in {"push", "push_many", "set_vec"} => Len(Unwrap(next)) <= MaxLen
     /\ st' = [st EXCEPT ![s.field] = next]
     /\ ghost' = [ghost EXCEPT ![s.field] = Note(@, s.op, arg)]
     /\ ret' = RetSelf
     /\ nbuild' = 0
     /\ UNCHANGED <<input, plan, pc>>

\* a call of build
Build ==
  /\ pc = "run"
  /\ nbuild < MaxBuilds
  /\ ret' = build(plan, input, st)
  /\ st' = AfterBuild(st)
  /\ nbuild' = nbuild + 1
  /\ UNCHANGED <<input, plan, pc, ghost>>

Calls == \E i \in 1..Len(plan.setters) : \E arg \in ArgsOf(plan.setters[i].op) : Call(i, arg)

\* the generator over single-field inputs
InitGen == input \in GenInputs /\ TypeInit

NextGen == Expand

SpecGen == InitGen /\ [][NextGen]_vars

\* the generator over a single sequence field
InitSeq == input \in SeqInputs /\ TypeInit

SpecSeq == InitSeq /\ [][NextGen]_vars

\* the generator and the builder it generates
Init == input \in RunInputs /\ TypeInit

Next == Expand \/ New \/ Calls \/ Build

Spec == Init /\ [][Next]_vars

(* --------------------- vocabulary of the properties -------------------- *)

\* the directives of a field: the items of its builder annotations, in
\* source order
RECURSIVE DirectivesFrom(_, _)
DirectivesFrom(attrs, a) ==
  IF a > Len(attrs) THEN << >>
  ELSE (IF attrs[a].tag = "builder" THEN attrs[a].items ELSE << >>)
       \o DirectivesFrom(attrs, a + 1)

Directives(f) == DirectivesFrom(f.attrs, 1)

Occurrences(f, key) == {i \in 1..Len(Directives(f)) : Directives(f)[i].key = key}

Carries(f, key) == Occurrences(f, key) # {}

\* no string literal among the directives is a non-identifier
WellFormed(f) ==
  \A i \in 1..Len(Directives(f)) :
     Directives(f)[i].kind = "str" => Directives(f)[i].v \notin NotIdents

IsSeqField(f) == f.ty = VecT

IsOptionField(f) == f.ty = OptionT

IsScalarField(f) == f.ty = I32

StructInput == input.data = "struct" /\ input.shape = "named"

Generated == pc # "input" /\ plan.status = "ok"

SettersOf(p, n) == {i \in 1..Len(p.setters) : p.setters[i].field = n}

MethodsOf(p, n) == {p.setters[i].name : i \in SettersOf(p, n)}

\* the name under which the accessor of field n with body op is generated
AccessorNames(p, n, op) ==
  {p.setters[i].name : i \in {j \in SettersOf(p, n) : p.setters[j].op = op}}

HasStorage(p, n) == \E i \in 1..Len(p.builder_fields) : p.builder_fields[i].name = n

FieldIx == 1..Len(input.fields)

(* ------------------------------- C3 ------------------------------------ *)

RenameKeys == {"setter", "setter_set", "setter_push", "setter_push_many"}

\* the accessor body a rename key names, and the name it has without one
OpOf(key, f) ==
  CASE key = "setter_set" -> "set_vec"
    [] key = "setter_push" -> "push"
    [] key = "setter_push_many" -> "push_many"
    [] key = "setter" -> IF IsOptionField(f) THEN "set_option" ELSE "set_scalar"

FallbackOf(key, f) ==
  CASE key = "setter_set" -> "set_items"
    [] key = "setter_push" -> "add_item"
    [] key = "setter_push_many" -> "add_items"
    [] key = "setter" -> f.name

AppliesTo(key, f) == IF key = "setter" THEN ~IsSeqField(f) ELSE IsSeqField(f)

\* C4: a rename key that is present with a string-literal value names the
\* accessor, whatever other directives accompany it and wherever it stands
\* among them, and the fallback name is then not on the builder.  Stated for
\* a field that is not skipped, whose string literals are identifiers and on
\* which the key occurs once.
C4_RenameHonoured ==
  (pc = "expanded" /\ StructInput) =>
    \A i \in FieldIx : \A key \in RenameKeys :
       LET f == input.fields[i]
           occ == Occurrences(f, key)
       IN (/\ f.ty \in BasicTypes
           /\ AppliesTo(key, f)
           /\ WellFormed(f)
           /\ ~Carries(f, "skip")
           /\ Cardinality(occ) = 1
           /\ \A o \in occ : Directives(f)[o].kind = "str")
          => /\ plan.status = "ok"
             /\ \A o \in occ :
                   AccessorNames(plan, f.name, OpOf(key, f)) = {Directives(f)[o].v}
             /\ FallbackOf(key, f) \notin MethodsOf(plan, f.name)

(* ------------------------------- C5 ------------------------------------ *)

\* C5: a field that carries a skip directive, in any position, has no
\* storage member and no accessor; skip = expr puts field: expr in the
\* constructor, bare skip leaves the field out of it and the constructor ends
\* in the default-construction fallback.  Stated for a field whose string
\* literals are identifiers and on which skip occurs once.
C5_SkipExcludesField ==
  (pc = "expanded" /\ StructInput) =>
    \A i \in FieldIx :
       LET f == input.fields[i]
           occ == Occurrences(f, "skip")
       IN (f.ty \in BasicTypes /\ WellFormed(f) /\ Cardinality(occ) = 1)
          => /\ plan.status = "ok"
             /\ ~HasStorage(plan, f.name)
             /\ SettersOf(plan, f.name) = {}
             /\ \A o \in occ :
                   IF Directives(f)[o].kind = "path"
                   THEN /\ plan.struct_update
                        /\ \A b \in 1..Len(plan.build_fields) :
                              plan.build_fields[b].name # f.name
                   ELSE \E b \in 1..Len(plan.build_fields) :
                           plan.build_fields[b] =
                              BuildField(f.name, "expr", ExprOf(Directives(f)[o]))

(* ------------------------------- C6 ------------------------------------ *)

\* C6: generation fails only when the input is not a struct with named
\* fields; whatever the builder directives of a struct with named fields
\* hold, generation completes.  Stated for fields of type T, Vec<T> and
\* Option<T>.
C6_OnlyShapeFails ==
  pc = "expanded" =>
    IF StructInput
    THEN (\A i \in FieldIx : input.fields[i].ty \in BasicTypes) => plan.status = "ok"
    ELSE plan.status = "panic"

(* ------------------------------- C8 ------------------------------------ *)

DirectiveKeys == RenameKeys \cup {"skip", "default"}

\* a value the key takes effect with
Effective(it) ==
  CASE it.key \in RenameKeys -> it.kind = "str" /\ it.v \notin NotIdents
    [] it.key = "default" -> it.kind # "path"
    [] OTHER -> TRUE

KeyApplies(key, f) ==
  CASE key \in RenameKeys -> AppliesTo(key, f)
    [] key = "default" -> IsScalarField(f)
    [] OTHER -> TRUE

\* the builder annotations of a field hold occurrences of one key only, two
\* or more, each with a value the key takes effect with
OnlyRepeats(f, key) ==
  /\ KeyApplies(key, f)
  /\ Len(Directives(f)) >= 2
  /\ \A i \in 1..Len(Directives(f)) : Directives(f)[i].key = key /\ Effective(Directives(f)[i])
  /\ \A a \in 1..Len(f.attrs) : f.attrs[a].tag = "builder"

\* C8: when a key occurs more than once on a field, within one annotation or
\* across several, the first occurrence is used and the later ones are
\* ignored: the generator's output is the output for the field with the
\* first occurrence alone.
C8_FirstOccurrenceWins ==
  (pc = "expanded" /\ StructInput) =>
    \A i \in FieldIx : \A key \in DirectiveKeys :
       LET f == input.fields[i] IN
       (f.ty \in BasicTypes /\ OnlyRepeats(f, key)) =>
          plan = expand_autobuilder(
                   [input EXCEPT !.fields[i].attrs = <<Attr("builder", <<Directives(f)[1]>>)>>])

(* ------------------------------- C9 ------------------------------------ *)

\* the classification C9 states
OneTypeArg(ty, h) ==
  ty.isPath /\ ty.head = h /\ ty.angle /\ Len(ty.args) = 1 /\ ty.args[1].kind = "type"

StatedShape(ty) ==
  IF OneTypeArg(ty, "Vec") THEN "vec"
  ELSE IF OneTypeArg(ty, "Option") THEN "option"
  ELSE "scalar"

\* C9: classification never fails, and a type is a sequence (an optional)
\* iff its head is Vec (Option) with exactly one generic argument that is a
\* type; every other type is a scalar.  Read off the storage member the
\* generator emits for a field without annotations.
C9_ClassificationTotal ==
  (pc = "expanded" /\ StructInput) =>
    \A i \in FieldIx :
       LET f == input.fields[i] IN
       f.attrs = << >> =>
          /\ plan.status = "ok"
          /\ \E b \in 1..Len(plan.builder_fields) :
                plan.builder_fields[b] = [name |-> f.name, shape |-> StatedShape(f.ty)]

(* ------------------------------- C1 ------------------------------------ *)

\* the value of the default directive of a field that carries one
DefaultOfField(f) ==
  LET o == CHOOSE o \in Occurrences(f, "default") : TRUE IN IntLit(Directives(f)[o].v)

\* the non-skipped scalar fields, and those among them that are required and
\* whose accessor has not been called
ScalarIx == {i \in FieldIx : IsScalarField(input.fields[i]) /\ ~Carries(input.fields[i], "skip")}

UnsetRequired ==
  {i \in ScalarIx : /\ ~Carries(input.fields[i], "default")
                    /\ ~IsSome(ghost[input.fields[i].name].set)}

Min(S) == CHOOSE x \in S : \A y \in S : x <= y

\* C1: build gives every non-skipped scalar field the last value passed to
\* its accessor, else the value of its default directive, else it returns a
\* failure naming the field; of several unset required fields the first in
\* declaration order is named, and build succeeds iff none is unset.
C1_ScalarResolution ==
  (pc = "run" /\ nbuild > 0) =>
    IF UnsetRequired # {}
    THEN ret = Err("Field '" \o input.fields[Min(UnsetRequired)].name \o "' is missing")
    ELSE /\ ret.kind = "ok"
         /\ \A i \in ScalarIx :
               LET f == input.fields[i] IN
               ret.rec[f.name] = IF IsSome(ghost[f.name].set) THEN Unwrap(ghost[f.name].set)
                                 ELSE DefaultOfField(f)

\* build has run with two required scalar fields unset and has named the
\* first of them
C1_Witness ==
  /\ pc = "run"
  /\ nbuild > 0
  /\ Cardinality(UnsetRequired) >= 2
  /\ ret = Err("Field 'a' is missing")

(* ------------------------------- C2 ------------------------------------ *)

SeqIx == {i \in FieldIx : IsSeqField(input.fields[i]) /\ ~Carries(input.fields[i], "skip")}

\* the sequence the calls made so far ask for
Asked(n) == ghost[n].base \o ghost[n].pushed

RECURSIVE PushEach(_, _, _)
PushEach(cur, values, i) ==
  IF i > Len(values) THEN cur ELSE PushEach(PushOne(cur, values[i]), values, i + 1)

\* C2: the sequence of a sequence field is the argument of the last
\* replace-all (the empty sequence if there was none) followed by the
\* elements pushed since, in call order, in the builder and in the record
\* build returns; a push-many leaves the member as the push-ones of its
\* elements in order would.
C2_SequenceAccumulation ==
  pc = "run" =>
    \A i \in SeqIx :
       LET n == input.fields[i].name IN
       /\ (IF IsSome(st[n]) THEN Unwrap(st[n]) ELSE << >>) = Asked(n)
       /\ (nbuild > 0 /\ ret.kind = "ok") => ret.rec[n] = Asked(n)
       /\ \A b \in Batches : b # << >> => PushMany(st[n], b) = PushEach(st[n], b, 1)

\* a replace-all followed by pushes, then a successful build
C2_Witness ==
  /\ pc = "run"
  /\ nbuild > 0
  /\ ret.kind = "ok"
  /\ \E i \in SeqIx :
        LET n == input.fields[i].name IN
        /\ ghost[n].base # << >>
        /\ ghost[n].pushed # << >>
        /\ ret.rec[n] = ghost[n].base \o ghost[n].pushed

(* ------------------------------- C7 ------------------------------------ *)

\* C7: a build call, successful or failed, leaves every storage member as it
\* was, and a build that follows a build returns what that one returned.
C7_BuildLeavesBuilder ==
  [][nbuild' > nbuild => (st' = st /\ (nbuild > 0 => ret' = ret))]_vars

\* two builds in a row on a builder whose accessors have been called
C7_Witness ==
  /\ pc = "run"
  /\ nbuild >= 2
  /\ \E n \in DOMAIN st : IsSome(st[n])

(* ------------------------------- C10 ----------------------------------- *)

\* C10: on a record with pairwise distinct field names and no rename
\* directives, the accessor names are pairwise distinct and differ from new
\* and build.
C10_AccessorNamesDistinct ==
  (/\ Generated
   /\ \A i, j \in FieldIx : i # j => input.fields[i].name # input.fields[j].name
   /\ \A i \in FieldIx : \A key \in RenameKeys : ~Carries(input.fields[i], key))
  => \A a, b \in 1..Len(plan.setters) :
        /\ plan.setters[a].name \notin {"new", "build"}
        /\ a # b => plan.setters[a].name # plan.setters[b].name

====
